---- MODULE Spec2Model ----
(***************************************************************************)
(* Classification pipeline of the phishing-email detector:                 *)
(*   RateLimiter  (llm/client.py)   sliding-window admission control       *)
(*   LLMCache     (llm/cache.py)    file-backed TTL cache                  *)
(*   GeminiClient (llm/client.py)   cache -> limiter -> external call      *)
(*   EmailAgent.process_email (agent/email_agent.py)                       *)
(*   score_email, score_emails_batch (api/app.py)                          *)
(*   Config.__post_init__ (agent/config.py), EmailAgent.__init__           *)
(*   redact_pii and the scanners (agent/utils.py)                          *)
(* Time is a discrete clock `now` (time.time()); one tick is one time unit.*)
(* Confidences are percentages (90 stands for 0.90).                       *)
(***************************************************************************)
EXTENDS Integers, Sequences, FiniteSets, TLC

VARIABLES
    now,        \* time.time()
    requests,   \* RateLimiter.requests (deque of admission timestamps)
    admitted,   \* history: every timestamp a direct wait_if_needed call recorded
    pc,         \* position of the running call: "idle", "sleeping", "api"
    cur,        \* context of the running call
    cache,      \* LLMCache directory: key -> file (exists, content, mtime)
    stored,     \* history: key -> last value handed to LLMCache.set, and when
    lastGood,   \* history: key -> last successful classification not cleared since
    lastOp,     \* history: the LLMCache operation just performed at this instant
    cache_enabled, \* GeminiClient.cache is not None
    stats,      \* GeminiClient.stats
    apiCalls,   \* number of generate_content invocations so far
    ret,        \* what the classify_email call that just returned gave back
    mode,       \* Config.mode: "llm" (a client was constructed) or "fallback"
    event,      \* the EmailEvent built by the last process_email call
    response,   \* the EmailScoreResponse built by the last score_email call
    config,     \* construction of Config and of EmailAgent: how far it got
    batch,      \* what the last score_emails_batch call answered
    fp,         \* history: the last two _create_cache_key computations
    th,         \* threads sharing the RateLimiter: where each one stands
    writer,     \* a thread inside LLMCache.set: where it stands
    redis,      \* the RedisCache object and the remote store
    imap,       \* run_imap_mode: where the poll loop stands
    mailbox,    \* the IMAP mailbox: message -> absent, unseen or seen
    log,        \* the event log: message -> number of events written
    snapshot,   \* what the get_stats call just made returned
    applied     \* the text utility just applied: its argument and its result

vars == <<now, requests, admitted, pc, cur, cache, stored, lastGood, lastOp,
          cache_enabled, stats, apiCalls, ret, mode, event, response,
          config, batch, fp, th, writer, redis, imap, mailbox, log,
          snapshot, applied>>

limiterVars == <<requests, admitted>>
cacheVars   == <<cache, stored, lastGood, lastOp>>
clientVars  == <<cache_enabled, stats, apiCalls, ret>>
agentVars   == <<mode, event, response>>
otherVars   == <<config, batch, fp>>
moreVars    == <<th, writer, redis, imap, mailbox, log, snapshot, applied>>

----------------------------------------------------------------------------
(* Bounds of the model *)

MaxTime == 6          \* the clock stops here
MaxCalls == 3         \* calls of wait_if_needed / classify_email per run
max_requests == 2     \* RateLimiter(max_requests, ...)
time_window == 2      \* RateLimiter(..., time_window)
ttl == 3              \* LLMCache(ttl)

MaxEvents == 2        \* events written to the log per message
Keys == {"k1", "k2"}  \* request fingerprints (sha256 digests)

----------------------------------------------------------------------------
(* Values *)

Blank == [label |-> "-", confidence |-> 0, explanation |-> "-"]
None == [some |-> FALSE, v |-> Blank]
Some(v) == [some |-> TRUE, v |-> v]

\* entries a response or a caller can supply: two well-formed ones, one with
\* a label outside {"phishing", "legit"}, one with a confidence above 1.0
Entries ==
    {[label |-> "phishing", confidence |-> 90, explanation |-> "e1"],
     [label |-> "legit", confidence |-> 40, explanation |-> "e2"],
     [label |-> "spam", confidence |-> 90, explanation |-> "e1"],
     [label |-> "legit", confidence |-> 150, explanation |-> "e2"]}

NoFile == [exists |-> FALSE, content |-> <<>>, mtime |-> 0]
\* file contents json.load cannot take: text that is not JSON, and bytes
\* that are not UTF-8; an empty file is <<>>
Malformed == <<"{">>
Undecodable == <<"\\xff">>
\* the file of a key when cache_dir itself is gone
NoDir == [exists |-> FALSE, content |-> <<"ENOENT">>, mtime |-> 0]
NoStore == [some |-> FALSE, v |-> Blank, at |-> 0]
NoOp == [op |-> "none", key |-> "-", ret |-> None, prev |-> None]
NoCall == [op |-> "none", n |-> 0, key |-> "-", wake |-> 0, slept |-> 0,
           start |-> 0, pre |-> NoStore]
NoResponse == [kind |-> "-", v |-> Blank]
NoRet == [kind |-> "init", key |-> "-", value |-> Blank, api |-> 0,
          resp |-> NoResponse, pre |-> NoStore, start |-> 0]
Threads == {"t1", "t2"}
NoThread == [pc |-> "idle", now |-> 0, wake |-> 0, n |-> 0, raised |-> FALSE]
NoWriter == [pc |-> "idle", key |-> "-", value |-> Blank, old |-> NoFile]
NoRedis == [state |-> "none", reachable |-> FALSE,
            remote |-> [k \in Keys |-> NoStore]]
MsgIds == {"m1", "m2"}
NoImap == [pc |-> "connect", pending |-> <<>>, emails |-> <<>>,
           failed |-> "none", retried |-> FALSE, interrupted |-> FALSE]
NoSnapshot == [made |-> FALSE, raised |-> FALSE, total_requests |-> 0,
               errors |-> 0, avg_latency_ms |-> 0, cache_hit_rate |-> 0,
               cache_enabled |-> FALSE, total_entries |-> 0]
\* Python's None is "None" in a text field and -1 in a numeric one
NoOutcome == [kind |-> "-", v |-> Blank, msg |-> "-"]
NoLlm == [llm_label |-> "None", llm_confidence |-> -1,
          llm_explanation |-> "None", llm_error |-> "None"]

----------------------------------------------------------------------------
(* RateLimiter *)

\* a purge that also drops the youngest timestamp still inside the window
RECURSIVE PurgeEarly(_, _)
PurgeEarly(reqs, t) ==
    IF reqs # <<>> /\ Head(reqs) <= t - time_window + 1
    THEN PurgeEarly(Tail(reqs), t)
    ELSE reqs

\* lines 45-46: drop the timestamps that left the window
RECURSIVE Purge(_, _)
Purge(reqs, t) ==
    IF reqs # <<>> /\ Head(reqs) <= t - time_window
    THEN Purge(Tail(reqs), t)
    ELSE reqs

\* a wait that is never positive
wait_time_none(reqs, t) == 0

\* a wait that overshoots the moment the head leaves the window
wait_time_long(reqs, t) == time_window - (t - Head(reqs)) + 1

\* line 50
wait_time(reqs, t) == time_window - (t - Head(reqs))

\* a limiter that turns the caller away when the window is full
wait_if_needed_reject(reqs, t) ==
    LET r == Purge(reqs, t) IN
    IF Len(r) >= max_requests
    THEN [sleep |-> FALSE, requests |-> r, recorded |-> <<>>, wake |-> t]
    ELSE [sleep |-> FALSE, requests |-> Append(r, t), recorded |-> <<t>>,
          wake |-> t]

\* lines 42-57, one evaluation at time t: either the caller must sleep until
\* `wake` and then re-evaluate, or t is appended.
wait_if_needed(reqs, t) ==
    LET r == Purge(reqs, t) IN
    IF Len(r) >= max_requests /\ wait_time(r, t) > 0
    THEN [sleep |-> TRUE, requests |-> r, recorded |-> <<>>,
          wake |-> t + wait_time(r, t)]
    ELSE [sleep |-> FALSE, requests |-> Append(r, t), recorded |-> <<t>>,
          wake |-> t]

\* the state change of one evaluation, continuing at `after` once admitted
Evaluate(c, after) ==
    LET w == wait_if_needed(requests, now) IN
    /\ requests' = w.requests
    /\ IF w.sleep
       THEN /\ pc' = "sleeping"
            /\ cur' = [c EXCEPT !.wake = w.wake, !.slept = c.slept + 1]
       ELSE /\ pc' = after
            /\ cur' = [c EXCEPT !.wake = now]

\* time.time() advances
Tick ==
    /\ now < MaxTime
    /\ now' = now + 1
    /\ lastOp' = NoOp
    /\ ret' = NoRet
    /\ UNCHANGED <<limiterVars, pc, cur, cache, stored, lastGood,
                   cache_enabled, stats, apiCalls, agentVars,
                   otherVars, moreVars>>

\* a caller invokes RateLimiter.wait_if_needed()
WaitIfNeeded ==
    /\ pc = "idle"
    /\ cur.n < MaxCalls
    /\ now + time_window <= MaxTime
    /\ Evaluate([NoCall EXCEPT !.op = "limiter", !.n = cur.n + 1,
                                !.start = now], "idle")
    /\ admitted' = admitted \o wait_if_needed(requests, now).recorded
    /\ UNCHANGED <<now, cacheVars, clientVars, agentVars,
                   otherVars, moreVars>>

\* lines 53-54: time.sleep(wait_time) returns, wait_if_needed runs again
WakeLimiter ==
    /\ pc = "sleeping"
    /\ cur.op = "limiter"
    /\ now >= cur.wake
    /\ Evaluate(cur, "idle")
    /\ admitted' = admitted \o wait_if_needed(requests, now).recorded
    /\ UNCHANGED <<now, cacheVars, clientVars, agentVars,
                   otherVars, moreVars>>

----------------------------------------------------------------------------
(* RateLimiter shared by several threads: the statements of wait_if_needed,
   one thread at a time, with no lock around them *)

ThreadCalls == th["t1"].n + th["t2"].n

\* line 42: now = time.time()
ThreadCall(t) ==
    /\ th[t].pc = "idle"
    /\ \A u \in Threads : th[u].pc # "idle" \/ ~th[u].raised
    /\ ThreadCalls < MaxCalls
    /\ now + time_window <= MaxTime
    /\ th' = [th EXCEPT ![t] = [@ EXCEPT !.pc = "purge", !.now = now,
                                           !.n = @ + 1]]
    /\ UNCHANGED <<now, limiterVars, pc, cur, cacheVars, clientVars,
                   agentVars, otherVars, writer, redis, imap, mailbox, log,
                   snapshot, applied>>

\* line 45: the test of the while loop
ThreadPurgeTest(t) ==
    /\ th[t].pc = "purge"
    /\ th' = [th EXCEPT ![t].pc =
                IF requests # <<>> /\ Head(requests) <= th[t].now - time_window
                THEN "pop" ELSE "check"]
    /\ UNCHANGED <<now, limiterVars, pc, cur, cacheVars, clientVars,
                   agentVars, otherVars, writer, redis, imap, mailbox, log,
                   snapshot, applied>>

\* line 46: self.requests.popleft(), IndexError on an empty deque
ThreadPop(t) ==
    /\ th[t].pc = "pop"
    /\ IF requests = <<>>
       THEN /\ th' = [th EXCEPT ![t] = [@ EXCEPT !.pc = "idle",
                                                  !.raised = TRUE]]
            /\ UNCHANGED requests
       ELSE /\ requests' = Tail(requests)
            /\ th' = [th EXCEPT ![t].pc = "purge"]
    /\ UNCHANGED <<now, admitted, pc, cur, cacheVars, clientVars,
                   agentVars, otherVars, writer, redis, imap, mailbox, log,
                   snapshot, applied>>

\* lines 49-54: the test of the length, the wait, the sleep
ThreadCheck(t) ==
    /\ th[t].pc = "check"
    /\ th' = [th EXCEPT ![t] =
                IF Len(requests) >= max_requests
                      /\ wait_time(requests, th[t].now) > 0
                THEN [@ EXCEPT !.pc = "sleeping",
                               !.wake = now + wait_time(requests, th[t].now)]
                ELSE [@ EXCEPT !.pc = "append"]]
    /\ UNCHANGED <<now, limiterVars, pc, cur, cacheVars, clientVars,
                   agentVars, otherVars, writer, redis, imap, mailbox, log,
                   snapshot, applied>>

\* line 54: time.sleep returns and wait_if_needed is entered again
ThreadWake(t) ==
    /\ th[t].pc = "sleeping"
    /\ now >= th[t].wake
    /\ th' = [th EXCEPT ![t] = [@ EXCEPT !.pc = "purge", !.now = now]]
    /\ UNCHANGED <<now, limiterVars, pc, cur, cacheVars, clientVars,
                   agentVars, otherVars, writer, redis, imap, mailbox, log,
                   snapshot, applied>>

\* line 57: self.requests.append(now)
ThreadAppend(t) ==
    /\ th[t].pc = "append"
    /\ requests' = Append(requests, th[t].now)
    /\ admitted' = Append(admitted, th[t].now)
    /\ th' = [th EXCEPT ![t].pc = "idle"]
    /\ UNCHANGED <<now, pc, cur, cacheVars, clientVars,
                   agentVars, otherVars, writer, redis, imap, mailbox, log,
                   snapshot, applied>>

----------------------------------------------------------------------------
(* LLMCache *)

\* json.dump / json.load of an entry {label, confidence, explanation}
JsonDump(v) == <<v.label, v.confidence, v.explanation>>
JsonLoad(s) == [label |-> s[1], confidence |-> s[2], explanation |-> s[3]]

\* an expiry test that already drops an entry whose age equals the TTL
is_expired_early(f, t) ==
    IF ~f.exists THEN TRUE ELSE (t - f.mtime) >= ttl

\* lines 32-43
is_expired(f, t) ==
    IF ~f.exists THEN TRUE ELSE (t - f.mtime) > ttl

\* lines 53-54: open(..., encoding='utf-8') and json.load raise
\* UnicodeDecodeError, which except (OSError, json.JSONDecodeError) at
\* line 59 does not catch
get_raises(f, t) == ~is_expired(f, t) /\ f.content = Undecodable

\* lines 45-61: None when the file is missing or expired, or when json.load
\* raises JSONDecodeError (an empty or malformed file)
LLMCache_get(c, k, t) ==
    IF is_expired(c[k], t) \/ Len(c[k].content) # 3 THEN None
    ELSE Some(JsonLoad(c[k].content))

\* a set that keeps the file when one is already there (open mode 'x')
LLMCache_set_exclusive(c, k, v, t) ==
    IF c[k].exists THEN c
    ELSE [c EXCEPT ![k] = [exists |-> TRUE, content |-> JsonDump(v),
                           mtime |-> t]]

\* lines 63-74: open(cache_file, 'w') and json.dump; with cache_dir gone
\* _get_cache_file raises FileNotFoundError, caught at line 73
LLMCache_set(c, k, v, t) ==
    IF c[k] = NoDir THEN c
    ELSE [c EXCEPT ![k] = [exists |-> TRUE, content |-> JsonDump(v),
                           mtime |-> t]]

\* a delete that removes the directory the file lies in, other files included
LLMCache_delete_dir(c, k) ==
    IF c[k] = NoDir THEN c ELSE [j \in Keys |-> NoFile]

\* lines 76-84
LLMCache_delete(c, k) == IF c[k] = NoDir THEN c ELSE [c EXCEPT ![k] = NoFile]

\* lines 86-94: with cache_dir gone rmtree raises and mkdir is not reached
LLMCache_clear(c) ==
    IF \E k \in Keys : c[k] = NoDir THEN c ELSE [k \in Keys |-> NoFile]

Remember(s, k, v, t) == [s EXCEPT ![k] = [some |-> TRUE, v |-> v, at |-> t]]
Forget(s, k) == [s EXCEPT ![k] = NoStore]
Known(s, k) == IF s[k].some THEN Some(s[k].v) ELSE None

CacheSet(k, v) ==
    /\ pc = "idle"
    /\ cache' = LLMCache_set(cache, k, v, now)
    /\ stored' = Remember(stored, k, v, now)
    /\ lastGood' = Forget(lastGood, k)
    /\ lastOp' = [op |-> "set", key |-> k, ret |-> Some(v),
                  prev |-> Known(stored, k)]
    /\ UNCHANGED <<now, limiterVars, pc, cur, clientVars, agentVars,
                   otherVars, moreVars>>

CacheGet(k) ==
    /\ pc = "idle"
    /\ lastOp' = [op |-> IF get_raises(cache[k], now) THEN "get raised"
                         ELSE "get",
                  key |-> k, ret |-> LLMCache_get(cache, k, now),
                  prev |-> Known(stored, k)]
    /\ UNCHANGED <<now, limiterVars, pc, cur, cache, stored, lastGood,
                   clientVars, agentVars,
                   otherVars, moreVars>>

CacheDelete(k) ==
    /\ pc = "idle"
    /\ cache' = LLMCache_delete(cache, k)
    /\ stored' = Forget(stored, k)
    /\ lastGood' = Forget(lastGood, k)
    /\ lastOp' = [op |-> "delete", key |-> k, ret |-> None,
                  prev |-> Known(stored, k)]
    /\ UNCHANGED <<now, limiterVars, pc, cur, clientVars, agentVars,
                   otherVars, moreVars>>

CacheClear ==
    /\ pc = "idle"
    /\ cache_enabled
    /\ cache' = LLMCache_clear(cache)
    /\ stored' = [k \in Keys |-> NoStore]
    /\ lastGood' = [k \in Keys |-> NoStore]
    /\ lastOp' = [op |-> "clear", key |-> "-", ret |-> None, prev |-> None]
    /\ ret' = NoRet
    /\ UNCHANGED <<now, limiterVars, pc, cur, cache_enabled, stats, apiCalls,
                   agentVars,
                   otherVars, moreVars>>

\* a cache file damaged from outside the program: emptied, overwritten with
\* text that is not JSON, or with bytes that are not UTF-8
Damages == {<<>>, Malformed, Undecodable}
Damage(k, content) ==
    /\ pc = "idle"
    /\ cache[k].exists
    /\ cache[k].content \notin Damages
    /\ cache' = [cache EXCEPT ![k].content = content]
    /\ stored' = Forget(stored, k)
    /\ UNCHANGED <<now, limiterVars, pc, cur, lastGood, lastOp, clientVars,
                   agentVars, otherVars, moreVars>>

\* cache_dir removed from outside the program
RemoveDir ==
    /\ pc = "idle"
    /\ \A k \in Keys : cache[k] # NoDir
    /\ cache' = [k \in Keys |-> NoDir]
    /\ stored' = [k \in Keys |-> NoStore]
    /\ UNCHANGED <<now, limiterVars, pc, cur, lastGood, lastOp, clientVars,
                   agentVars, otherVars, moreVars>>

\* LLMCache.set in another thread, line 68: open(cache_file, 'w') creates
\* the file or truncates the one that is there
WriterOpen(k, v) ==
    /\ writer.pc = "idle"
    /\ cache' = [cache EXCEPT ![k] = [exists |-> TRUE, content |-> <<>>,
                                      mtime |-> now]]
    /\ writer' = [pc |-> "open", key |-> k, value |-> v, old |-> cache[k]]
    /\ stored' = Forget(stored, k)
    /\ UNCHANGED <<now, limiterVars, pc, cur, lastGood, lastOp, clientVars,
                   agentVars, otherVars, th, redis, imap, mailbox, log,
                   snapshot, applied>>

\* lines 69-70: json.dump, and the file is flushed and closed; a file
\* unlinked in between (delete, clear) takes the text with it
WriterClose ==
    /\ writer.pc = "open"
    /\ IF cache[writer.key].exists
       THEN /\ cache' = LLMCache_set(cache, writer.key, writer.value, now)
            /\ stored' = Remember(stored, writer.key, writer.value, now)
       ELSE UNCHANGED <<cache, stored>>
    /\ writer' = [writer EXCEPT !.pc = "idle"]
    /\ UNCHANGED <<now, limiterVars, pc, cur, lastGood, lastOp, clientVars,
                   agentVars, otherVars, th, redis, imap, mailbox, log,
                   snapshot, applied>>

----------------------------------------------------------------------------
(* RedisCache *)

\* lines 136-150: import redis fails and the except clause, which names
\* redis.ConnectionError, raises UnboundLocalError; or ping() succeeds; or
\* ping() raises ConnectionError and LLMCache.__init__ runs
RedisInit(installed, reachable) ==
    /\ redis.state = "none"
    /\ redis' = [redis EXCEPT
                   !.state = IF ~installed THEN "raised"
                             ELSE IF reachable THEN "remote" ELSE "fallback",
                   !.reachable = installed /\ reachable]
    /\ UNCHANGED <<now, limiterVars, pc, cur, cacheVars, clientVars,
                   agentVars, otherVars, th, writer, imap, mailbox, log,
                   snapshot, applied>>

\* the remote store goes away or comes back
RedisToggle ==
    /\ redis.state \in {"remote", "fallback"}
    /\ redis' = [redis EXCEPT !.reachable = ~@]
    /\ UNCHANGED <<now, limiterVars, pc, cur, cacheVars, clientVars,
                   agentVars, otherVars, th, writer, imap, mailbox, log,
                   snapshot, applied>>

\* what redis_client.get finds: setex keeps a key for ttl seconds
redis_get(r, k, t) ==
    IF r.reachable /\ r.remote[k].some /\ t - r.remote[k].at < ttl
    THEN Some(r.remote[k].v) ELSE None

\* lines 163-169: always self.redis_client.setex; an error is logged
RedisSet(k, v) ==
    /\ redis.state \in {"remote", "fallback"}
    /\ redis' = IF redis.reachable
                THEN [redis EXCEPT !.remote = Remember(@, k, v, now)]
                ELSE redis
    /\ stored' = Remember(stored, k, v, now)
    /\ lastOp' = [op |-> "set", key |-> k, ret |-> Some(v),
                  prev |-> Known(stored, k)]
    /\ UNCHANGED <<now, limiterVars, pc, cur, cache, lastGood, clientVars,
                   agentVars, otherVars, th, writer, imap, mailbox, log,
                   snapshot, applied>>

\* lines 152-161: always self.redis_client.get; an error gives None
RedisGet(k) ==
    /\ redis.state \in {"remote", "fallback"}
    /\ lastOp' = [op |-> "get", key |-> k, ret |-> redis_get(redis, k, now),
                  prev |-> Known(stored, k)]
    /\ UNCHANGED <<now, limiterVars, pc, cur, cache, stored, lastGood,
                   clientVars, agentVars, otherVars, moreVars>>

\* lines 171-176
RedisDelete(k) ==
    /\ redis.state \in {"remote", "fallback"}
    /\ IF redis.reachable
       THEN /\ redis' = [redis EXCEPT !.remote = Forget(@, k)]
            /\ stored' = Forget(stored, k)
       ELSE UNCHANGED <<redis, stored>>
    /\ lastOp' = [op |-> "delete", key |-> k, ret |-> None,
                  prev |-> Known(stored, k)]
    /\ UNCHANGED <<now, limiterVars, pc, cur, cache, lastGood, clientVars,
                   agentVars, otherVars, th, writer, imap, mailbox, log,
                   snapshot, applied>>

----------------------------------------------------------------------------
(* GeminiClient *)

max_retries == 3      \* classify_email(..., max_retries: int = 3)

\* what generate_content can come back with: an exception, an empty text, a
\* text holding no JSON object with the three required fields, a JSON
\* object whose confidence is not a number, or a JSON object with the three
\* fields
FailureKinds == {"raise", "empty", "noparse", "badconf"}
Responses ==
    {[kind |-> f, v |-> Blank] : f \in FailureKinds}
        \cup {[kind |-> "json", v |-> e] : e \in Entries}

\* the responses and entries used over a damaged cache directory
StorageResponses ==
    {[kind |-> "raise", v |-> Blank],
     [kind |-> "json",
      v |-> [label |-> "phishing", confidence |-> 90, explanation |-> "e1"]]}
StorageKeys == {"k1"}
StorageEntries ==
    {[label |-> "legit", confidence |-> 40, explanation |-> "e2"]}

\* lines 145-175: the object when it parses and holds the three fields
parse_gemini_response(resp) ==
    IF resp.kind \in {"json", "badconf"} THEN Some(resp.v) ELSE None

\* a try block that takes whatever came back for a result
TryBody_always_ok(resp) == [kind |-> "ok", v |-> resp.v]

\* lines 216-264, the body of the try block from the external call on:
\* "ok" with the result, "fail" (lines 259-264), or "exc", an exception
TryBody(resp) ==
    IF resp.kind = "raise" THEN [kind |-> "exc", v |-> Blank]
    ELSE IF resp.kind = "empty" THEN [kind |-> "fail", v |-> Blank]
    ELSE LET parsed == parse_gemini_response(resp) IN
         IF ~parsed.some THEN [kind |-> "fail", v |-> Blank]
         ELSE IF resp.kind = "badconf" THEN [kind |-> "exc", v |-> Blank]
         ELSE [kind |-> "ok", v |-> parsed.v]

\* a handler that catches nothing
except_nothing(o) == o

\* lines 266-269: except Exception: count the error, return None
except_Exception(o) ==
    IF o.kind = "exc" THEN [kind |-> "fail", v |-> Blank] ELSE o

\* a hit that is also counted as a request
count_hit_as_request(st) ==
    [st EXCEPT !.cache_hits = @ + 1, !.total_requests = @ + 1]

\* line 189
count_hit(st) == [st EXCEPT !.cache_hits = @ + 1]

\* an entry stored without its explanation
cache_data_short(v) == [v EXCEPT !.explanation = "-"]

\* lines 249-253
cache_data(v) ==
    [label |-> v.label, confidence |-> v.confidence,
     explanation |-> v.explanation]

\* lines 177-213: the cache lookup, then the rate limiter
classify_email(k) ==
    /\ pc = "idle"
    /\ cur.n < MaxCalls
    /\ LET cached == IF cache_enabled THEN LLMCache_get(cache, k, now) ELSE None
           c == [NoCall EXCEPT !.op = "classify", !.n = cur.n + 1, !.key = k,
                               !.start = now, !.pre = lastGood[k]]
       IN IF cache_enabled /\ get_raises(cache[k], now)
          THEN \* lines 266-269: the exception of cache.get is caught here
               /\ stats' = [stats EXCEPT !.errors = @ + 1]
               /\ ret' = [kind |-> "none", key |-> k, value |-> Blank,
                          api |-> 0, resp |-> NoResponse, pre |-> c.pre,
                          start |-> now]
               /\ pc' = "idle"
               /\ cur' = [NoCall EXCEPT !.n = c.n]
               /\ requests' = requests
          ELSE IF cached.some
          THEN /\ stats' = count_hit(stats)
               /\ ret' = [kind |-> "hit", key |-> k, value |-> cached.v,
                          api |-> 0, resp |-> NoResponse, pre |-> c.pre,
                          start |-> now]
               /\ pc' = "idle"
               /\ cur' = [NoCall EXCEPT !.n = c.n]
               /\ requests' = requests
          ELSE /\ stats' = [stats EXCEPT !.cache_misses = @ + 1]
               /\ Evaluate(c, "api")
               /\ ret' = NoRet
    /\ UNCHANGED <<now, admitted, cacheVars, cache_enabled, apiCalls>>

\* classify_email called on its own
ClassifyEmail(k) == classify_email(k) /\ UNCHANGED <<agentVars, otherVars, moreVars>>

\* RateLimiter lines 53-54 inside classify_email
WakeClassify ==
    /\ pc = "sleeping"
    /\ cur.op = "classify"
    /\ now >= cur.wake
    /\ Evaluate(cur, "api")
    /\ UNCHANGED <<now, admitted, cacheVars, clientVars, agentVars,
                   otherVars, moreVars>>

\* lines 216-269: generate_content is invoked and comes back with resp
generate_content(resp) ==
    /\ pc = "api"
    /\ apiCalls' = apiCalls + 1
    /\ LET o == except_Exception(TryBody(resp))
           r == [kind |-> "none", key |-> cur.key, value |-> Blank, api |-> 1,
                 resp |-> resp, pre |-> cur.pre, start |-> cur.start]
       IN CASE o.kind = "ok" ->
                 /\ stats' = [stats EXCEPT !.total_requests = @ + 1,
                                           !.total_latency_ms =
                                               @ + (now - cur.wake)]
                 /\ IF cache_enabled
                    THEN /\ cache' = LLMCache_set(cache, cur.key,
                                                  cache_data(o.v), now)
                         /\ stored' = Remember(stored, cur.key,
                                               cache_data(o.v), now)
                    ELSE UNCHANGED <<cache, stored>>
                 /\ lastGood' = Remember(lastGood, cur.key, o.v, now)
                 /\ ret' = [r EXCEPT !.kind = "fresh", !.value = o.v]
            [] o.kind = "fail" ->
                 /\ stats' = [stats EXCEPT !.errors = @ + 1]
                 /\ ret' = r
                 /\ UNCHANGED <<cache, stored, lastGood>>
            [] o.kind = "exc" ->
                 /\ ret' = [r EXCEPT !.kind = "raised"]
                 /\ UNCHANGED <<stats, cache, stored, lastGood>>
    /\ pc' = "idle"
    /\ cur' = [NoCall EXCEPT !.n = cur.n]
    /\ UNCHANGED <<now, limiterVars, lastOp, cache_enabled>>

\* the rest of a classify_email call made on its own
ApiReturn(resp) == generate_content(resp) /\ UNCHANGED <<agentVars, otherVars, moreVars>>

\* a test that lets the division through whatever the denominator is
nonzero_always(n) == TRUE

\* lines 274 and 279: if ... > 0
nonzero(n) == n > 0

\* Python's a / b: ZeroDivisionError when b is 0; the quotient is kept as
\* a whole number of the unit of a
divide(a, b) ==
    IF b = 0 THEN [raised |-> TRUE, q |-> 0]
    ELSE [raised |-> FALSE, q |-> a \div b]

\* LLMCache.get_stats, lines 111-131: the number of entry files
total_entries(c) == Cardinality({k \in Keys : c[k].exists})

\* lines 271-295; the hit rate is in thousandths, as round(..., 3) keeps it
get_stats(st, enabled, c) ==
    LET avg_latency ==
            IF nonzero(st.total_requests)
            THEN divide(st.total_latency_ms, st.total_requests)
            ELSE [raised |-> FALSE, q |-> 0]
        total_cache_requests == st.cache_hits + st.cache_misses
        cache_hit_rate ==
            IF nonzero(total_cache_requests)
            THEN divide(st.cache_hits * 1000, total_cache_requests)
            ELSE [raised |-> FALSE, q |-> 0]
    IN [made |-> TRUE,
        raised |-> avg_latency.raised \/ cache_hit_rate.raised,
        total_requests |-> st.total_requests,
        errors |-> st.errors,
        avg_latency_ms |-> avg_latency.q,
        cache_hit_rate |-> cache_hit_rate.q,
        cache_enabled |-> enabled,
        total_entries |-> IF enabled THEN total_entries(c) ELSE 0]

\* get_stats called between two other calls, or while one is under way
GetStats ==
    /\ snapshot' = get_stats(stats, cache_enabled, cache)
    /\ snapshot' # snapshot
    /\ UNCHANGED <<now, limiterVars, pc, cur, cacheVars, clientVars,
                   agentVars, otherVars, th, writer, redis, imap, mailbox,
                   log, applied>>

----------------------------------------------------------------------------
(* Text handled by the orchestrators: a text is a sequence of words *)

Emails ==
    {[from |-> <<"a@b.com">>, to |-> << <<"c@d.org">> >>,
      subject |-> <<"URGENT:", "verify", "now">>,
      body |-> <<"open", "http://scam-site.com/login", "now">>],
     [from |-> <<"Bob", "a@b.com">>, to |-> << <<"c@d.org">> >>,
      subject |-> <<"call", "123-456-7890">>,
      body |-> <<"hello", "a@b.com">>],
     [from |-> <<"a@b.com">>, to |-> << <<"c@d.org">> >>,
      subject |-> <<"Team", "meeting">>,
      body |-> <<"see", "http://example.com/a">>]}

NoEmail == [from |-> <<>>, to |-> <<>>, subject |-> <<>>, body |-> <<>>]

\* utils.py lines 67-98: the substitutions, word by word
redact_word(w) ==
    CASE w \in {"a@b.com", "c@d.org"} -> "[EMAIL_REDACTED]"
      [] w = "123-456-7890" -> "[PHONE_REDACTED]"
      [] OTHER -> w

\* utils.py lines 62-100
redact_pii(text) ==
    IF text = <<>> THEN text
    ELSE [i \in DOMAIN text |-> redact_word(text[i])]

\* the entries of SUSPICIOUS_KEYWORDS that occur in the lower-cased word
KeywordsIn(w) ==
    CASE w = "URGENT:" -> {"urgent"}
      [] w = "verify" -> {"verify"}
      [] OTHER -> {}

\* utils.py lines 118-130: each keyword of the list counts once
count_suspicious_keywords(text) ==
    Cardinality(UNION {KeywordsIn(text[i]) : i \in DOMAIN text})

\* urlparse(url).netloc, piece by piece; <<>> for a word that is no URL
netloc(w) ==
    CASE w = "http://scam-site.com/login" -> <<"scam-site", ".", "com">>
      [] w = "http://example.com/a" -> <<"example", ".", "com">>
      [] w = "http://WWW.Scam-Site.com/x" ->
             <<"WWW", ".", "Scam-Site", ".", "com">>
      [] w = "http://WWW.Example-Bad.com/x" ->
             <<"WWW", ".", "Example-Bad", ".", "com">>
      [] w = "http://login.scam-site.com/" ->
             <<"login", ".", "scam-site", ".", "com">>
      [] w = "http://scam-site.com:8080/x" ->
             <<"scam-site", ".", "com", ":", "8080">>
      [] w = "http://user@scam-site.com/" ->
             <<"user", "@", "scam-site", ".", "com">>
      [] OTHER -> <<>>

\* str.lower() on one piece
lower_piece(p) ==
    CASE p = "WWW" -> "www"
      [] p = "Scam-Site" -> "scam-site"
      [] p = "Example-Bad" -> "example-bad"
      [] OTHER -> p

netloc_lower(s) == [i \in DOMAIN s |-> lower_piece(s[i])]

\* utils.py lines 136-141: netloc.lower(), without a leading "www."
DomainOf(w) ==
    LET domain == netloc_lower(netloc(w))
    IN IF Len(domain) >= 2 /\ domain[1] = "www" /\ domain[2] = "."
       THEN SubSeq(domain, 3, Len(domain))
       ELSE domain

BLACKLIST_DOMAINS ==
    {<<"phishing-example", ".", "com">>, <<"malicious-site", ".", "net">>,
     <<"fake-bank", ".", "org">>, <<"scam-site", ".", "com">>}

\* utils.py lines 102-116
extract_urls(text) == {text[i] : i \in {j \in DOMAIN text : netloc(text[j]) # <<>>}}

\* utils.py lines 132-148
check_blacklist(urls) == \E u \in urls : DomainOf(u) \in BLACKLIST_DOMAINS

ExcerptLen == 2     \* redacted_body[:2000]
TruncLen == 2       \* truncate_text(request.body, 1500)

\* text.rfind('.'), counted from 0; -1 when there is none
rfind_period(text) ==
    IF \E i \in DOMAIN text : text[i] = "."
    THEN (CHOOSE i \in DOMAIN text :
            text[i] = "." /\ \A j \in DOMAIN text : text[j] = "." => j <= i) - 1
    ELSE -1

\* utils.py lines 203-215
truncate_text(text, max_length) ==
    IF text = <<>> \/ Len(text) <= max_length THEN text
    ELSE LET truncated == SubSeq(text, 1, max_length)
             last_period == rfind_period(truncated)
         IN IF last_period * 10 > max_length * 8
            THEN SubSeq(truncated, 1, last_period + 1)
            ELSE truncated \o <<".", ".", ".">>

NoArgs == [called |-> FALSE, sender |-> <<>>, subject |-> <<>>, body |-> <<>>]
Args(sender, subject, body) ==
    [called |-> TRUE, sender |-> sender, subject |-> subject, body |-> body]

----------------------------------------------------------------------------
(* The text utilities character by character: a text is a sequence of
   one-character strings, and a replacement marker is a single element *)

NoApplied == [fn |-> "-", arg |-> <<>>, n |-> 0, out |-> <<>>]

Digits == {"0", "1", "2", "3", "4", "5", "6", "7", "8", "9"}

\* \w: letters, digits and the underscore
WordChar(c) == c \in Digits \cup {"a", "c", "l", "x", "_"}

\* \b before position i: exactly one side is a word character
Boundary(text, i) ==
    LET before == i - 1 \in DOMAIN text /\ WordChar(text[i - 1])
        after  == i \in DOMAIN text /\ WordChar(text[i])
    IN before # after

\* phone_patterns, without the \b at both ends: "d" is \d, "s*" is \s*, any
\* other atom is the character itself
phone_patterns ==
    << <<"d", "d", "d", "-", "d", "d", "d", "-", "d", "d", "d", "d">>,
       <<"(", "d", "d", "d", ")", "s*", "d", "d", "d", "-",
         "d", "d", "d", "d">>,
       <<"d", "d", "d", ".", "d", "d", "d", ".", "d", "d", "d", "d">>,
       <<"+", "1", "s*", "d", "d", "d", "s*", "d", "d", "d", "s*",
         "d", "d", "d", "d">> >>

\* the positions right after a match of pat that starts at position i
RECURSIVE MatchEnds(_, _, _)
MatchEnds(text, i, pat) ==
    IF pat = <<>> THEN {i}
    ELSE LET atom == Head(pat)
         IN IF atom = "s*"
            THEN MatchEnds(text, i, Tail(pat))
                   \cup (IF i \in DOMAIN text /\ text[i] = " "
                         THEN MatchEnds(text, i + 1, pat) ELSE {})
            ELSE IF /\ i \in DOMAIN text
                    /\ IF atom = "d" THEN text[i] \in Digits
                       ELSE text[i] = atom
                 THEN MatchEnds(text, i + 1, Tail(pat))
                 ELSE {}

\* re.sub(r'\b' + pat + r'\b', repl, text), scanning from position i
RECURSIVE re_sub(_, _, _, _)
re_sub(pat, repl, text, i) ==
    IF i > Len(text) THEN <<>>
    ELSE LET ends == {j \in MatchEnds(text, i, pat) : Boundary(text, j)}
         IN IF Boundary(text, i) /\ ends # {}
            THEN <<repl>> \o re_sub(pat, repl, text,
                            CHOOSE j \in ends : \A e \in ends : e <= j)
            ELSE <<text[i]>> \o re_sub(pat, repl, text, i + 1)

\* utils.py lines 83-84: one substitution per pattern, in the list's order
RECURSIVE redact_phones(_, _)
redact_phones(text, p) ==
    IF p > Len(phone_patterns) THEN text
    ELSE redact_phones(re_sub(phone_patterns[p], "[PHONE_REDACTED]", text, 1),
                       p + 1)

\* the four layouts of the comments in phone_patterns
Layouts ==
    {<<"1", "2", "3", "-", "4", "5", "6", "-", "7", "8", "9", "0">>,
     <<"(", "1", "2", "3", ")", " ", "4", "5", "6", "-", "7", "8", "9", "0">>,
     <<"1", "2", "3", ".", "4", "5", "6", ".", "7", "8", "9", "0">>,
     <<"+", "1", " ", "1", "2", "3", " ", "4", "5", "6", " ",
       "7", "8", "9", "0">>}

\* a number at the start of the text or after "call "
OpenPrefixes == {<<>>, <<"c", "a", "l", "l", " ">>}
Prefixes == OpenPrefixes \cup {<<"x">>, <<"_">>}
Suffixes == {<<>>, <<" ", "x">>, <<".">>}

PhoneTexts == {pre \o l \o post : pre \in Prefixes, l \in Layouts,
                                  post \in Suffixes}

\* redact_pii on a text without an address, a card number or an SSN: the
\* substitutions of lines 67-73 and 86-98 find nothing in it
RedactPii(text) ==
    /\ applied' = [fn |-> "redact_pii", arg |-> text, n |-> 0,
                   out |-> IF text = <<>> THEN text
                           ELSE redact_phones(text, 1)]
    /\ UNCHANGED <<now, limiterVars, pc, cur, cacheVars, clientVars,
                   agentVars, otherVars, th, writer, redis, imap, mailbox,
                   log, snapshot>>

MaxLength == 6      \* max_length
MaxText == 8        \* len(text)

TruncTexts == UNION {[1..k -> {"a", "."}] : k \in 0..MaxText}

TruncateText(text, max_length) ==
    /\ applied' = [fn |-> "truncate_text", arg |-> text, n |-> max_length,
                   out |-> truncate_text(text, max_length)]
    /\ UNCHANGED <<now, limiterVars, pc, cur, cacheVars, clientVars,
                   agentVars, otherVars, th, writer, redis, imap, mailbox,
                   log, snapshot>>

Urls ==
    {"http://scam-site.com/login", "http://example.com/a",
     "http://WWW.Scam-Site.com/x", "http://WWW.Example-Bad.com/x",
     "http://login.scam-site.com/", "http://scam-site.com:8080/x",
     "http://user@scam-site.com/"}

UrlLists == {urls \in SUBSET Urls : Cardinality(urls) <= 2}

CheckBlacklist(urls) ==
    /\ applied' = [fn |-> "check_blacklist", arg |-> urls, n |-> 0,
                   out |-> check_blacklist(urls)]
    /\ UNCHANGED <<now, limiterVars, pc, cur, cacheVars, clientVars,
                   agentVars, otherVars, th, writer, redis, imap, mailbox,
                   log, snapshot>>

----------------------------------------------------------------------------
(* EmailAgent.process_email and the API's score_email *)

Messages == {"AttributeError", "TimeoutError"}

\* what self.llm_client.classify_email(...) can do for its caller: return a
\* result, return None, or raise
ClientOutcomes ==
    {[kind |-> "result", v |-> e, msg |-> "-"] : e \in Entries}
        \cup {[kind |-> "result", msg |-> "-",
                v |-> [label |-> "legit", confidence |-> 90,
                       explanation |-> "e2"]]}
        \cup {[kind |-> "none", v |-> Blank, msg |-> "-"]}
        \cup {[kind |-> "raise", v |-> Blank, msg |-> m] : m \in Messages}

\* f"Error: {str(e)[:100]}"
ErrorText(msg) ==
    IF msg = "AttributeError" THEN "Error: AttributeError"
    ELSE "Error: TimeoutError"

\* email_agent.py lines 240-245
FromResult(v) ==
    [llm_label |-> v.label, llm_confidence |-> v.confidence,
     llm_explanation |-> v.explanation, llm_error |-> "None"]

\* the handler of score_email (app.py lines 163-168), which labels "error"
except_client_as_error(msg) ==
    [llm_label |-> "error", llm_confidence |-> 0,
     llm_explanation |-> ErrorText(msg), llm_error |-> "None"]

\* email_agent.py lines 247-253
except_client(msg) ==
    [llm_label |-> "unavailable", llm_confidence |-> 0,
     llm_explanation |-> ErrorText(msg), llm_error |-> msg]

\* a guard that calls the client whatever the mode
client_always == TRUE

\* email_agent.py line 230: if self.llm_client and self.config.mode == 'llm'
client_enabled == config.llm_client /\ mode = "llm"

NoEvent == [made |-> FALSE, email |-> NoEmail, sender |-> <<>>,
            recipients |-> <<>>, subject |-> <<>>, body_excerpt |-> <<>>,
            urls |-> {}, suspicious_keywords |-> 0,
            url_in_blacklist |-> FALSE, ml_score |-> -1, llm |-> NoLlm,
            client |-> NoOutcome, call |-> NoArgs]

\* email_agent.py lines 191-283; EmailEvent (lines 36-59) has no field for a
\* risk level
process_email(email_data, outcome) ==
    LET sender == email_data.from
        subject == email_data.subject
        body == email_data.body
        redacted_sender == redact_pii(sender)
        redacted_body == redact_pii(body)
        urls == extract_urls(body)
        body_excerpt == IF Len(redacted_body) > ExcerptLen
                        THEN SubSeq(redacted_body, 1, ExcerptLen)
                        ELSE redacted_body
        called == client_enabled
    IN [made |-> TRUE,
        email |-> email_data,
        sender |-> redacted_sender,
        recipients |-> [i \in DOMAIN email_data.to |->
                          redact_pii(email_data.to[i])],
        subject |-> subject,
        body_excerpt |-> body_excerpt,
        urls |-> urls,
        suspicious_keywords |-> count_suspicious_keywords(subject \o body),
        url_in_blacklist |-> check_blacklist(urls),
        ml_score |-> -1,
        llm |-> IF called
                THEN CASE outcome.kind = "result" -> FromResult(outcome.v)
                       [] outcome.kind = "none" -> NoLlm
                       [] outcome.kind = "raise" -> except_client(outcome.msg)
                ELSE NoLlm,
        client |-> IF called THEN outcome ELSE NoOutcome,
        call |-> IF called THEN Args(redacted_sender, subject, body_excerpt)
                 ELSE NoArgs]

ProcessEmail(email_data, outcome) ==
    /\ pc = "idle"
    /\ config.agent = "ready"
    /\ event' = process_email(email_data, outcome)
    /\ UNCHANGED <<now, limiterVars, pc, cur, cacheVars, clientVars, mode,
                   response, otherVars, moreVars>>

\* the fingerprint of the texts handed to the client
KeyOf(email_data) ==
    IF email_data.subject = <<"URGENT:", "verify", "now">> THEN "k1" ELSE "k2"

PipelineEmails == {e \in Emails : e.subject # <<"Team", "meeting">>}

\* what a finished classify_email call handed to its caller
OutcomeOf(r) ==
    CASE r.kind \in {"hit", "fresh"} ->
           [kind |-> "result", v |-> r.value, msg |-> "-"]
      [] r.kind = "raised" ->
           [kind |-> "raise", v |-> Blank, msg |-> "TimeoutError"]
      [] OTHER -> [kind |-> "none", v |-> Blank, msg |-> "-"]

\* process_email with the GeminiClient behind it: up to the point where
\* classify_email returns or waits (lines 191-237)
ProcessEmailCall(email_data) ==
    /\ config.agent = "ready"
    /\ pc = "idle"
    /\ IF client_enabled
       THEN /\ classify_email(KeyOf(email_data))
            /\ event' = IF pc' = "idle"
                        THEN process_email(email_data, OutcomeOf(ret'))
                        ELSE [NoEvent EXCEPT !.email = email_data]
       ELSE /\ event' = process_email(email_data, NoOutcome)
            /\ UNCHANGED <<now, limiterVars, pc, cur, cacheVars, clientVars>>
    /\ UNCHANGED <<mode, response, otherVars, moreVars>>

\* process_email from the return of the external call on (lines 238-283)
ProcessEmailReturn(resp) ==
    /\ ~event.made
    /\ event.email # NoEmail
    /\ generate_content(resp)
    /\ event' = process_email(event.email, OutcomeOf(ret'))
    /\ UNCHANGED <<mode, response, otherVars, moreVars>>

HighRisk == 85
MediumRisk == 60
MlScores == {-1, 10, 70, 90}   \* phishing_probability; -1: no ML result

\* app.py lines 170-179
risk_level(ml_score, llm_confidence) ==
    LET ml == IF ml_score = -1 THEN 0 ELSE ml_score
        llm == IF llm_confidence = -1 THEN 0 ELSE llm_confidence
    IN IF ml >= HighRisk \/ llm >= HighRisk THEN "high"
       ELSE IF ml >= MediumRisk \/ llm >= MediumRisk THEN "medium"
       ELSE "low"

\* EmailScoreRequest: the three texts and the mode
ScoreRequests ==
    {[sender |-> e.from, subject |-> e.subject, body |-> e.body, mode |-> m] :
        e \in Emails, m \in {"classic", "llm", "hybrid"}}
      \cup {[sender |-> <<"a@b.com">>, subject |-> <<"Team", "meeting">>,
             body |-> <<>>, mode |-> "llm"]}

NoRequest == [sender |-> <<>>, subject |-> <<>>, body |-> <<>>, mode |-> "-"]
NoScore == [status |-> 0, request |-> NoRequest, ml_score |-> -1,
            llm |-> NoLlm, risk_level |-> "unknown", client |-> NoOutcome,
            call |-> NoArgs]

\* app.py lines 107-191: the response, or the HTTPException (status 400)
score_email(request, ml, outcome) ==
    IF request.sender = <<>> \/ request.subject = <<>> \/ request.body = <<>>
    THEN [NoScore EXCEPT !.status = 400, !.request = request]
    ELSE LET ml_score == IF request.mode \in {"classic", "hybrid"}
                         THEN ml ELSE -1
             called == mode = "llm" /\ request.mode \in {"llm", "hybrid"}
             redacted_sender == redact_pii(request.sender)
             truncated_body == truncate_text(request.body, TruncLen)
             llm == IF called
                    THEN CASE outcome.kind = "result" -> FromResult(outcome.v)
                           [] outcome.kind = "none" ->
                                [llm_label |-> "unavailable",
                                 llm_confidence |-> 0,
                                 llm_explanation |-> "LLM classification failed",
                                 llm_error |-> "None"]
                           [] outcome.kind = "raise" ->
                                except_client_as_error(outcome.msg)
                    ELSE NoLlm
         IN [status |-> 200, request |-> request, ml_score |-> ml_score,
             llm |-> llm,
             risk_level |-> risk_level(ml_score, llm.llm_confidence),
             client |-> IF called THEN outcome ELSE NoOutcome,
             call |-> IF called
                      THEN Args(redacted_sender, request.subject, truncated_body)
                      ELSE NoArgs]

ScoreEmail(request, ml, outcome) ==
    /\ pc = "idle"
    /\ response' = score_email(request, ml, outcome)
    /\ UNCHANGED <<now, limiterVars, pc, cur, cacheVars, clientVars, mode,
                   event, otherVars, moreVars>>

----------------------------------------------------------------------------
(* EmailAgent.run_imap_mode: the poll loop over the mailbox *)

imapFrame == <<now, limiterVars, pc, cur, cacheVars, clientVars, agentVars,
               otherVars, th, writer, redis, snapshot, applied>>

\* a message arrives in the mailbox
Deliver(m) ==
    /\ mailbox[m] = "absent"
    /\ mailbox' = [mailbox EXCEPT ![m] = "unseen"]
    /\ UNCHANGED <<imapFrame, imap, log>>

\* a poll loop that lets the exception out
run_imap_except_break(e) == "stopped"

\* lines 353-355: except Exception: log, time.sleep(30)
run_imap_except(e) == "cooldown"

\* line 325: mail = self.connect_imap(), which re-raises (lines 96-98)
ConnectImap(ok) ==
    /\ imap.pc = "connect"
    /\ imap' = IF ok THEN [imap EXCEPT !.pc = "search", !.failed = "none"]
               ELSE [imap EXCEPT !.pc = run_imap_except("connect"),
                                 !.failed = "connect"]
    /\ UNCHANGED <<imapFrame, mailbox, log>>

\* what SEARCH UNSEEN answers, in the order of the mailbox
search_unseen(mb) == SelectSeq(<<"m1", "m2">>, LAMBDA m : mb[m] = "unseen")

\* lines 102-105: mail.search(None, 'UNSEEN'); a status other than OK gives
\* no messages, an exception gives return [] (lines 118-120)
Search(outcome) ==
    /\ imap.pc = "search"
    /\ imap' = CASE outcome = "ok" ->
                     [imap EXCEPT !.pc = "fetch", !.emails = <<>>,
                                  !.pending = search_unseen(mailbox)]
                 [] outcome = "no" ->
                     [imap EXCEPT !.pc = "close", !.emails = <<>>]
                 [] outcome = "raise" ->
                     [imap EXCEPT !.pc = "close", !.emails = <<>>,
                                  !.failed = "fetch"]
    /\ UNCHANGED <<imapFrame, mailbox, log>>

\* lines 106-113, one message: mail.fetch, message_from_bytes and
\* _parse_email, emails.append, mail.store(msg_id, '+FLAGS', '\\Seen') whose
\* status is not looked at; an exception anywhere gives return []
FetchOne(outcome) ==
    /\ imap.pc = "fetch"
    /\ imap.pending # <<>>
    /\ LET m == Head(imap.pending) IN
       /\ outcome = "store_no" => log[m] + 1 < MaxEvents
       /\ imap' = CASE outcome \in {"ok", "store_no"} ->
                        [imap EXCEPT !.pending = Tail(@),
                                     !.emails = Append(@, m)]
                    [] outcome = "fetch_no" ->
                        [imap EXCEPT !.pending = Tail(@)]
                    [] outcome \in {"fetch_raise", "store_raise"} ->
                        [imap EXCEPT !.pc = "close", !.pending = <<>>,
                                     !.emails = <<>>, !.failed = "fetch"]
       /\ mailbox' = IF outcome = "ok" THEN [mailbox EXCEPT ![m] = "seen"]
                     ELSE mailbox
    /\ UNCHANGED <<imapFrame, log>>

\* lines 115-116: return emails
FetchDone ==
    /\ imap.pc = "fetch"
    /\ imap.pending = <<>>
    /\ imap' = [imap EXCEPT !.pc = "close"]
    /\ UNCHANGED <<imapFrame, mailbox, log>>

\* lines 327-328: mail.close(), mail.logout()
CloseImap(ok) ==
    /\ imap.pc = "close"
    /\ imap' = IF ok THEN [imap EXCEPT !.pc = "process"]
               ELSE [imap EXCEPT !.pc = run_imap_except("close"),
                                 !.emails = <<>>, !.failed = "close"]
    /\ UNCHANGED <<imapFrame, mailbox, log>>

\* lines 330-342, one message: process_email, write_event_to_log (which
\* keeps its own failure, lines 285-296), the log line; except Exception
ProcessOne(outcome) ==
    /\ imap.pc = "process"
    /\ imap.emails # <<>>
    /\ LET m == Head(imap.emails) IN
       log' = IF outcome \in {"ok", "format_raise"}
              THEN [log EXCEPT ![m] = @ + 1] ELSE log
    /\ imap' = [imap EXCEPT !.emails = Tail(@)]
    /\ UNCHANGED <<imapFrame, mailbox>>

\* lines 344-348: the loop over emails is over, time.sleep(poll interval)
ProcessDone ==
    /\ imap.pc = "process"
    /\ imap.emails = <<>>
    /\ imap' = [imap EXCEPT !.pc = "sleep_poll"]
    /\ UNCHANGED <<imapFrame, mailbox, log>>

\* lines 348 and 355: time.sleep returns, while True goes round
WakeImap ==
    /\ imap.pc \in {"sleep_poll", "cooldown"}
    /\ imap' = [imap EXCEPT !.pc = "connect",
                            !.retried = (imap.pc = "cooldown")]
    /\ UNCHANGED <<imapFrame, mailbox, log>>

\* lines 350-352: KeyboardInterrupt, which no except Exception catches
Interrupt ==
    /\ imap.pc # "stopped"
    /\ imap' = [imap EXCEPT !.pc = "stopped", !.interrupted = TRUE]
    /\ UNCHANGED <<imapFrame, mailbox, log>>

----------------------------------------------------------------------------
(* The batch endpoint of the API *)

MaxBatch == 2       \* len(requests) > 100 is refused

\* one entry of a batch: the request, and what the classifier and the client
\* do when it is scored
BatchEntries ==
    {[request |-> [sender |-> <<"a@b.com">>,
                   subject |-> <<"URGENT:", "verify", "now">>,
                   body |-> <<"open", "http://scam-site.com/login", "now">>,
                   mode |-> "llm"],
      ml |-> -1,
      outcome |-> [kind |-> "result",
                   v |-> [label |-> "phishing", confidence |-> 90,
                          explanation |-> "e1"],
                   msg |-> "-"]],
     [request |-> [sender |-> <<"Bob", "a@b.com">>,
                   subject |-> <<"call", "123-456-7890">>,
                   body |-> <<"hello", "a@b.com">>,
                   mode |-> "hybrid"],
      ml |-> 70,
      outcome |-> [kind |-> "none", v |-> Blank, msg |-> "-"]],
     [request |-> [sender |-> <<"a@b.com">>,
                   subject |-> <<"Team", "meeting">>,
                   body |-> <<>>,
                   mode |-> "llm"],
      ml |-> -1,
      outcome |-> [kind |-> "none", v |-> Blank, msg |-> "-"]],
     [request |-> [sender |-> <<"a@b.com">>,
                   subject |-> <<"Team", "meeting">>,
                   body |-> <<"see", "http://example.com/a">>,
                   mode |-> "classic"],
      ml |-> 10,
      outcome |-> [kind |-> "none", v |-> Blank, msg |-> "-"]],
     [request |-> [sender |-> <<"a@b.com">>,
                   subject |-> <<"URGENT:", "verify", "now">>,
                   body |-> <<"open", "http://scam-site.com/login", "now">>,
                   mode |-> "llm"],
      ml |-> -1,
      outcome |-> [kind |-> "raise", v |-> Blank, msg |-> "TimeoutError"]]}

Batches == UNION {[1..n -> BatchEntries] : n \in 0..(MaxBatch + 1)}

\* results.append(result)
Scored(r) == [error |-> "None", result |-> r]
\* app.py lines 205-212: the entry appended when score_email raised
ErrorEntry(r) ==
    [error |-> "400: All fields (sender, subject, body) are required",
     result |-> NoScore]

\* a loop without the try/except of lines 202-212: the first failure ends it
RECURSIVE BatchLoopAbort(_, _, _)
BatchLoopAbort(entries, i, results) ==
    IF i > Len(entries) THEN results
    ELSE LET e == entries[i]
             r == score_email(e.request, e.ml, e.outcome)
         IN IF r.status = 200
            THEN BatchLoopAbort(entries, i + 1, Append(results, Scored(r)))
            ELSE results

\* app.py lines 200-212
RECURSIVE BatchLoop(_, _, _)
BatchLoop(entries, i, results) ==
    IF i > Len(entries) THEN results
    ELSE LET e == entries[i]
             r == score_email(e.request, e.ml, e.outcome)
         IN BatchLoop(entries, i + 1,
                      Append(results,
                             IF r.status = 200 THEN Scored(r)
                             ELSE ErrorEntry(r)))

NoBatch == [status |-> 0, entries |-> <<>>, results |-> <<>>, total |-> 0]

\* app.py lines 194-214
score_emails_batch(entries) ==
    IF Len(entries) > MaxBatch
    THEN [status |-> 400, entries |-> entries, results |-> <<>>, total |-> 0]
    ELSE LET results == BatchLoop(entries, 1, <<>>)
         IN [status |-> 200, entries |-> entries, results |-> results,
             total |-> Len(results)]

ScoreEmailsBatch(entries) ==
    /\ pc = "idle"
    /\ batch' = score_emails_batch(entries)
    /\ UNCHANGED <<now, limiterVars, pc, cur, cacheVars, clientVars,
                   agentVars, config, fp, moreVars>>

----------------------------------------------------------------------------
(* Config.__post_init__ and EmailAgent.__init__ *)

EnvModes == {"unset", "llm", "fallback", "hybrid"}   \* os.getenv("MODE")

NewConfig == [phase |-> "new", requested |-> "-", api_key |-> FALSE,
              agent |-> "none", llm_client |-> FALSE]

\* a validation that keeps the requested mode when the key is missing
post_init_keep(requested, api_key, model_ok) ==
    [ok |-> requested \in {"llm", "fallback"} /\ model_ok, mode |-> requested]

\* a validation that also switches 'fallback' to 'llm' when a key is present
post_init_upgrade(requested, api_key, model_ok) ==
    LET m == IF requested = "llm" /\ ~api_key THEN "fallback"
             ELSE IF requested = "fallback" /\ api_key THEN "llm"
             ELSE requested
    IN [ok |-> m \in {"llm", "fallback"} /\ model_ok, mode |-> m]

\* config.py lines 63-73: the validation; ok is FALSE when it raises ValueError
post_init(requested, api_key, model_ok) ==
    LET m == IF requested = "llm" /\ ~api_key THEN "fallback" ELSE requested
    IN [ok |-> m \in {"llm", "fallback"} /\ model_ok, mode |-> m]

\* config.py lines 42-73; mode holds the field default 'llm' before
ConfigPostInit(env_mode, api_key, model_ok) ==
    /\ config.phase = "new"
    /\ LET requested == IF env_mode = "unset" THEN mode ELSE env_mode
           v == post_init(requested, api_key, model_ok)
       IN /\ mode' = v.mode
          /\ config' = [config EXCEPT
                          !.phase = IF v.ok THEN "ready" ELSE "failed",
                          !.requested = requested,
                          !.api_key = api_key]
    /\ UNCHANGED <<now, limiterVars, pc, cur, cacheVars, clientVars, event,
                   response, batch, fp, moreVars>>

\* email_agent.py lines 62-86
AgentInit(LLM_AVAILABLE, client_ok) ==
    /\ config.phase = "ready"
    /\ config.agent = "none"
    /\ config' =
         IF mode = "llm" /\ LLM_AVAILABLE
         THEN IF client_ok
              THEN [config EXCEPT !.agent = "ready", !.llm_client = TRUE]
              ELSE [config EXCEPT !.agent = "failed"]
         ELSE IF mode = "llm" /\ ~LLM_AVAILABLE
         THEN [config EXCEPT !.agent = "failed"]
         ELSE [config EXCEPT !.agent = "ready"]
    /\ UNCHANGED <<now, limiterVars, pc, cur, cacheVars, clientVars,
                   agentVars, batch, fp, moreVars>>

\* the configurations an orchestrator can be running with
ReadyConfigs(m) ==
    {[phase |-> "ready", requested |-> r, api_key |-> k, agent |-> "ready",
      llm_client |-> m = "llm"] :
        <<r, k>> \in {x \in {"llm", "fallback"} \X BOOLEAN :
                        LET v == post_init(x[1], x[2], TRUE)
                        IN v.ok /\ v.mode = m}}

----------------------------------------------------------------------------
(* GeminiClient._create_cache_key: a text is a sequence of characters *)

body_prefix == 2    \* body.lower()[:1000]

SenderTexts == {<<"a">>, <<"A">>, <<"a", "|", "a">>}
SubjectTexts == {<<"a">>, <<"a", "|", "a">>}
BodyChars == {"b", "B", "S"}     \* "S" stands for the capital sigma
BodyTexts == UNION {[1..n -> BodyChars] : n \in 0..(body_prefix + 1)}

Cased(c) == c \in {"a", "A", "b", "B", "S", "s", "z"}

\* the lower case of one character taken alone
lower_char(c) ==
    CASE c = "A" -> "a"
      [] c = "B" -> "b"
      [] c = "S" -> "s"
      [] OTHER -> c

\* str.lower(): character by character, except that a capital sigma after a
\* cased letter and not before one becomes the final sigma ("z")
lower(text) ==
    [i \in DOMAIN text |->
        IF /\ text[i] = "S"
           /\ i > 1 /\ Cased(text[i - 1])
           /\ ~(i < Len(text) /\ Cased(text[i + 1]))
        THEN "z"
        ELSE lower_char(text[i])]

\* text[:n]
Prefix(text, n) == SubSeq(text, 1, IF Len(text) < n THEN Len(text) ELSE n)

\* hashlib.sha256(content.encode()).hexdigest(), taken to be collision-free
sha256(content) == <<"sha256", content>>

\* client.py lines 139-143
create_cache_key(sender, subject, body) ==
    sha256(lower(sender) \o <<"|">> \o lower(subject) \o <<"|">>
             \o Prefix(lower(body), body_prefix))

NoKey == [made |-> FALSE, sender |-> <<>>, subject |-> <<>>, body |-> <<>>,
          key |-> <<>>]
NoFp == [prev |-> NoKey, last |-> NoKey]

CreateCacheKey(sender, subject, body) ==
    /\ pc = "idle"
    /\ ~fp.prev.made
    /\ fp' = [prev |-> fp.last,
              last |-> [made |-> TRUE, sender |-> sender, subject |-> subject,
                        body |-> body,
                        key |-> create_cache_key(sender, subject, body)]]
    /\ UNCHANGED <<now, limiterVars, pc, cur, cacheVars, clientVars,
                   agentVars, config, batch, moreVars>>

----------------------------------------------------------------------------
(* Specifications *)

InitBase ==
    /\ now = 0
    /\ requests = <<>>
    /\ admitted = <<>>
    /\ pc = "idle"
    /\ cur = NoCall
    /\ cache = [k \in Keys |-> NoFile]
    /\ stored = [k \in Keys |-> NoStore]
    /\ lastGood = [k \in Keys |-> NoStore]
    /\ lastOp = NoOp
    /\ cache_enabled \in BOOLEAN
    /\ stats = [total_requests |-> 0, cache_hits |-> 0, cache_misses |-> 0,
                errors |-> 0, total_latency_ms |-> 0]
    /\ apiCalls = 0
    /\ ret = NoRet
    /\ event = NoEvent
    /\ response = NoScore
    /\ batch = NoBatch
    /\ fp = NoFp
    /\ th = [t \in Threads |-> NoThread]
    /\ writer = NoWriter
    /\ redis = NoRedis
    /\ imap = NoImap
    /\ mailbox = [m \in MsgIds |-> "absent"]
    /\ log = [m \in MsgIds |-> 0]
    /\ snapshot = NoSnapshot
    /\ applied = NoApplied

\* after Config() and EmailAgent(config) succeeded
Init ==
    /\ InitBase
    /\ mode \in {"llm", "fallback"}
    /\ config \in ReadyConfigs(mode)

\* the client: cache, limiter, external call
Next ==
    \/ Tick
    \/ \E k \in Keys : ClassifyEmail(k)
    \/ WakeClassify
    \/ \E resp \in Responses : ApiReturn(resp)
    \/ CacheClear
InitClient == Init /\ mode = "llm"
Spec == InitClient /\ [][Next]_vars

\* the orchestrators, with the client as a collaborator
NextAgent ==
    \/ \E e \in Emails, o \in ClientOutcomes : ProcessEmail(e, o)
    \/ \E r \in ScoreRequests, ml \in MlScores, o \in ClientOutcomes :
          ScoreEmail(r, ml, o)
InitAgent == Init /\ cache_enabled
SpecAgent == InitAgent /\ [][NextAgent]_vars

\* the rate limiter on its own
NextLimiter == Tick \/ WaitIfNeeded \/ WakeLimiter
InitLimiter == Init /\ cache_enabled /\ mode = "llm"
SpecLimiter == InitLimiter /\ [][NextLimiter]_vars
FairLimiter == SpecLimiter /\ WF_vars(Tick) /\ WF_vars(WakeLimiter)

\* the cache on its own
NextCache ==
    \/ Tick
    \/ \E k \in Keys, v \in Entries : CacheSet(k, v)
    \/ \E k \in Keys : CacheGet(k)
    \/ \E k \in Keys : CacheDelete(k)
    \/ CacheClear
InitCache == Init /\ cache_enabled /\ mode = "llm"
SpecCache == InitCache /\ [][NextCache]_vars

\* construction: Config(), then EmailAgent(config), then messages
NextConfig ==
    \/ \E env_mode \in EnvModes, api_key \in BOOLEAN, model_ok \in BOOLEAN :
          ConfigPostInit(env_mode, api_key, model_ok)
    \/ \E available \in BOOLEAN, client_ok \in BOOLEAN :
          AgentInit(available, client_ok)
    \/ \E e \in PipelineEmails : ProcessEmailCall(e)
    \/ WakeClassify
    \/ \E resp \in Responses : ProcessEmailReturn(resp)
    \/ Tick
InitConfig == InitBase /\ cache_enabled /\ mode = "llm" /\ config = NewConfig
SpecConfig == InitConfig /\ [][NextConfig]_vars

\* the batch endpoint
NextBatch == \E entries \in Batches : ScoreEmailsBatch(entries)
InitBatch == Init /\ cache_enabled
SpecBatch == InitBatch /\ [][NextBatch]_vars

\* the rate limiter shared by two threads
NextThreads ==
    \/ Tick
    \/ \E t \in Threads : ThreadCall(t)
    \/ \E t \in Threads : ThreadPurgeTest(t)
    \/ \E t \in Threads : ThreadPop(t)
    \/ \E t \in Threads : ThreadCheck(t)
    \/ \E t \in Threads : ThreadWake(t)
    \/ \E t \in Threads : ThreadAppend(t)
InitThreads == Init /\ cache_enabled /\ mode = "llm"
SpecThreads == InitThreads /\ [][NextThreads]_vars

\* the cache read while another thread writes
NextWriter ==
    \/ Tick
    \/ \E k \in StorageKeys, v \in Entries : WriterOpen(k, v)
    \/ WriterClose
    \/ \E k \in StorageKeys : CacheGet(k)
    \/ \E k \in StorageKeys : CacheDelete(k)
    \/ CacheClear
InitWriter == Init /\ cache_enabled /\ mode = "llm"
SpecWriter == InitWriter /\ [][NextWriter]_vars

\* the client over a cache directory that can be damaged
NextStorage ==
    \/ Tick
    \/ \E k \in StorageKeys : ClassifyEmail(k)
    \/ WakeClassify
    \/ \E resp \in StorageResponses : ApiReturn(resp)
    \/ \E k \in StorageKeys, v \in StorageEntries : CacheSet(k, v)
    \/ \E k \in StorageKeys : CacheGet(k)
    \/ \E k \in StorageKeys : CacheDelete(k)
    \/ CacheClear
    \/ \E k \in StorageKeys, content \in Damages : Damage(k, content)
    \/ RemoveDir
InitStorage == Init /\ cache_enabled /\ mode = "llm"
SpecStorage == InitStorage /\ [][NextStorage]_vars

\* RedisCache: construction, then set, get and delete
NextRedis ==
    \/ Tick
    \/ \E installed \in BOOLEAN, reachable \in BOOLEAN :
          RedisInit(installed, reachable)
    \/ RedisToggle
    \/ \E k \in Keys, v \in StorageEntries : RedisSet(k, v)
    \/ \E k \in Keys : RedisGet(k)
    \/ \E k \in Keys : RedisDelete(k)
InitRedis == Init /\ cache_enabled /\ mode = "llm"
SpecRedis == InitRedis /\ [][NextRedis]_vars

\* the IMAP poll loop
LoopStep ==
    \/ \E ok \in BOOLEAN : ConnectImap(ok)
    \/ \E outcome \in {"ok", "no", "raise"} : Search(outcome)
    \/ \E outcome \in {"ok", "fetch_no", "fetch_raise", "store_no",
                        "store_raise"} : FetchOne(outcome)
    \/ FetchDone
    \/ \E ok \in BOOLEAN : CloseImap(ok)
    \/ \E outcome \in {"ok", "process_raise", "write_fail",
                        "format_raise"} : ProcessOne(outcome)
    \/ ProcessDone
    \/ WakeImap
NextImap ==
    \/ LoopStep
    \/ \E m \in MsgIds : Deliver(m)
    \/ Interrupt
InitImap == Init /\ cache_enabled /\ mode = "llm"
SpecImap == InitImap /\ [][NextImap]_vars
FairImap == SpecImap /\ WF_vars(LoopStep)

\* the client with get_stats called at any point
NextStats ==
    \/ Tick
    \/ \E k \in StorageKeys : ClassifyEmail(k)
    \/ WakeClassify
    \/ \E resp \in StorageResponses : ApiReturn(resp)
    \/ CacheClear
    \/ GetStats
InitStats == Init /\ mode = "llm"
SpecStats == InitStats /\ [][NextStats]_vars

\* the text utilities on their own
NextUtils ==
    \/ \E text \in TruncTexts : TruncateText(text, MaxLength)
    \/ \E text \in PhoneTexts : RedactPii(text)
    \/ \E urls \in UrlLists : CheckBlacklist(urls)
InitUtils == Init /\ cache_enabled /\ mode = "llm"
SpecUtils == InitUtils /\ [][NextUtils]_vars

\* the cache key on its own
NextKey ==
    \E sender \in SenderTexts, subject \in SubjectTexts, body \in BodyTexts :
        CreateCacheKey(sender, subject, body)
InitKey == Init /\ cache_enabled /\ mode = "llm"
SpecKey == InitKey /\ [][NextKey]_vars

----------------------------------------------------------------------------
(* Properties of the rate limiter *)

\* timestamps recorded within the window (t - time_window, t]
InWindow(seq, t) ==
    {i \in 1..Len(seq) : seq[i] <= t /\ t - seq[i] < time_window}

\* C1: with a single caller, at every instant t up to now the number of
\* recorded timestamps lying within the trailing time_window (the window the
\* limiter purges by: age strictly below time_window) is at most max_requests,
\* both among all timestamps ever recorded and among those in the deque.
C1_WindowNeverExceeded ==
    /\ \A t \in 0..now : Cardinality(InWindow(admitted, t)) <= max_requests
    /\ Cardinality(InWindow(requests, now)) <= max_requests

\* a caller found the window full, slept, and was admitted into a window that
\* is full again
C1_Witness ==
    /\ pc = "idle"
    /\ cur.op = "limiter"
    /\ cur.slept >= 1
    /\ Len(admitted) > max_requests
    /\ Cardinality(InWindow(admitted, now)) = max_requests

\* C9: every call of wait_if_needed returns with the caller admitted: a call
\* that has returned has recorded exactly one timestamp (its own admission
\* time), a sleeping call has recorded none yet, and a sleeping call always
\* returns (time advancing, sleep returning).
C9_EveryCallAdmitted ==
    /\ [](cur.op = "limiter" =>
            /\ pc = "idle" =>
                 /\ Len(admitted) = cur.n
                 /\ admitted[cur.n] = cur.wake
                 /\ requests # <<>>
                 /\ requests[Len(requests)] = cur.wake
            /\ pc = "sleeping" => Len(admitted) = cur.n - 1)
    /\ ((pc = "sleeping") ~> (pc = "idle"))

\* a call that had to sleep has returned, admitted
C9_Witness ==
    /\ pc = "idle"
    /\ cur.op = "limiter"
    /\ cur.slept >= 1
    /\ cur.wake >= cur.start + 1
    /\ Len(admitted) = cur.n

\* max_requests timestamps of the deque lie inside the trailing window
FullWindow ==
    Cardinality({i \in DOMAIN requests : requests[i] > now - time_window})
        >= max_requests

\* C29: a call of wait_if_needed blocks if and only if max_requests recorded
\* timestamps lie inside the trailing window when it is made, and it then
\* blocks for a strictly positive duration; so the admission following
\* max_requests admissions made within the window blocks, and admissions
\* spaced by time_window or more never do.
C29_BlocksIffFull ==
    [][(pc = "idle" /\ cur'.op = "limiter" /\ cur'.n = cur.n + 1) =>
          /\ (pc' = "sleeping") <=> FullWindow
          /\ (pc' = "sleeping") => cur'.wake > now
          /\ (pc' = "idle") => (cur'.wake = now /\ cur'.slept = 0)]_vars

\* the call after max_requests admissions inside one window is blocked
C29_Witness ==
    /\ pc = "sleeping"
    /\ cur.op = "limiter"
    /\ cur.n = max_requests + 1
    /\ Len(admitted) = max_requests
    /\ admitted[1] > now - time_window
    /\ cur.wake > now

\* C30: with a single caller a call of wait_if_needed sleeps at most once,
\* for a duration in (0, time_window], and the evaluation made after the
\* sleep admits the caller.
C30_SleepsAtMostOnce ==
    /\ [](cur.op = "limiter" =>
            /\ cur.slept <= 1
            /\ pc = "sleeping" =>
                 /\ cur.wake - cur.start > 0
                 /\ cur.wake - cur.start <= time_window)
    /\ [][(pc = "sleeping" /\ cur.op = "limiter" /\ requests' # requests) =>
            /\ pc' = "idle"
            /\ Len(admitted') = Len(admitted) + 1
            /\ admitted'[Len(admitted')] = now]_vars

\* a call slept for the whole window and was admitted right at its end
C30_Witness ==
    /\ pc = "idle"
    /\ cur.op = "limiter"
    /\ cur.slept = 1
    /\ cur.wake = cur.start + time_window
    /\ Len(admitted) = cur.n

\* C21: with several threads calling wait_if_needed on one RateLimiter, in
\* every interleaving no trailing time_window holds more than max_requests
\* recorded timestamps, and every recorded timestamp still inside the window
\* is in the deque.
C21_ThreadsWindow ==
    /\ \A t \in 0..now : Cardinality(InWindow(admitted, t)) <= max_requests
    /\ \A i \in InWindow(admitted, now) :
          \E j \in DOMAIN requests : requests[j] = admitted[i]
    /\ \A t \in Threads : ~th[t].raised

\* C22: a get of k that runs while a set of k is under way returns the
\* entry stored before the write or the one being written, never a partial
\* one, and an overwrite of a live entry never makes k appear absent.
C22_OverwriteNeverAbsent ==
    [][(/\ lastOp'.op = "get" /\ lastOp' # lastOp
        /\ writer.pc = "open" /\ lastOp'.key = writer.key
        /\ cache[writer.key].exists
        /\ ~is_expired(writer.old, now))
         => lastOp'.ret \in {Some(JsonLoad(writer.old.content)),
                             Some(writer.value)}]_vars

\* C23: a storage error inside get, set, delete or clear never reaches the
\* caller, and a classify_email whose lookup met one goes on as on a miss:
\* it counts a miss and proceeds to the rate limiter.
StorageError(f) == f = NoDir \/ (f.exists /\ f.content \in Damages)
C23_StorageErrorsAbsorbed ==
    /\ [](lastOp.op # "get raised")
    /\ [][LET k == IF cur'.op = "classify" THEN cur'.key ELSE ret'.key
          IN (cur'.n = cur.n + 1 /\ cache_enabled /\ StorageError(cache[k]))
               => /\ stats'.cache_misses = stats.cache_misses + 1
                  /\ pc' \in {"api", "sleeping"}]_vars

\* C24: a RedisCache constructed while the remote store cannot be used is
\* constructed without an exception and serves from the local store: a get
\* of k that follows a set(k, v) within the TTL returns v.
C24_RedisFallsBack ==
    /\ redis.state # "raised"
    /\ (/\ redis.state = "fallback"
        /\ lastOp.op = "get"
        /\ stored[lastOp.key].some
        /\ now - stored[lastOp.key].at < ttl)
         => lastOp.ret = Some(stored[lastOp.key].v)

\* C25: a connection or fetch failure never ends the poll loop: the loop
\* stops only on an interrupt, a failure leads to the cooldown (or, for a
\* failure kept inside fetch_unseen_emails, to the end of the poll), every
\* connection attempt but the first follows a sleep, and after a failure
\* the loop does connect again.
C25_LoopSurvivesFailures ==
    /\ [](imap.pc = "stopped" => imap.interrupted)
    /\ [][(imap'.failed # imap.failed /\ imap'.failed # "none")
            => imap'.pc = IF imap'.failed = "fetch" THEN "close"
                          ELSE "cooldown"]_vars
    /\ [][(imap'.pc = "connect" /\ imap.pc # "connect")
            => imap.pc \in {"sleep_poll", "cooldown"}]_vars
    /\ (imap.pc = "cooldown") ~> (imap.pc \in {"connect", "stopped"})
    /\ (imap.failed # "none" /\ imap.pc # "connect")
          ~> (imap.pc \in {"connect", "stopped"})
C25_Witness ==
    imap.pc = "search" /\ imap.retried /\ ~imap.interrupted

\* C26: a message marked seen is in no later answer to the search for
\* unseen messages, and each message has at most one event in the log.
C26_AtMostOneEvent ==
    /\ [](\A m \in MsgIds : log[m] <= 1)
    /\ [][\A i \in DOMAIN imap'.pending :
            mailbox[imap'.pending[i]] # "seen"]_vars

\* C28: every message marked seen eventually has an event in the log,
\* unless the loop is interrupted first.
C28_SeenIsLogged ==
    \A m \in MsgIds :
        (mailbox[m] = "seen") ~> (log[m] >= 1 \/ imap.interrupted)

\* C27: get_stats changes nothing but its own result: the counters, the
\* rate-limiter window, the cache and the number of external calls are as
\* before; it raises no ZeroDivisionError, and the average latency is 0
\* without requests and the hit rate 0 without lookups.
C27_GetStatsReadOnly ==
    /\ [][snapshot' # snapshot =>
            /\ UNCHANGED <<stats, requests, admitted, cache, apiCalls, pc,
                           cur>>
            /\ snapshot'.total_requests = stats.total_requests
            /\ snapshot'.errors = stats.errors]_vars
    /\ [](snapshot.made =>
            /\ ~snapshot.raised
            /\ snapshot.total_requests = 0 => snapshot.avg_latency_ms = 0
            /\ snapshot.cache_hit_rate \in 0..1000)
    /\ [][(snapshot' # snapshot /\ stats.cache_hits + stats.cache_misses = 0)
            => snapshot'.cache_hit_rate = 0]_vars
C27_Witness ==
    /\ snapshot.made
    /\ snapshot.total_requests = 0
    /\ stats.cache_hits + stats.cache_misses > 0
    /\ snapshot.cache_hit_rate = 0

----------------------------------------------------------------------------
(* Properties of the cache *)

\* C5: get(k) issued immediately after set(k, v) returns exactly v, whatever
\* was stored for k before.
C5_GetAfterSet ==
    lastOp.op = "set" =>
        LLMCache_get(cache, lastOp.key, now) = lastOp.ret

\* set(k, v) has just overwritten a different value stored for k
C5_Witness ==
    /\ lastOp.op = "set"
    /\ lastOp.prev.some
    /\ lastOp.prev # lastOp.ret
    /\ LLMCache_get(cache, lastOp.key, now) = lastOp.ret

\* C6: get(k) returns the value of the most recent set(k, .) while the time
\* elapsed since that set is at most ttl and returns nothing once it exceeds
\* ttl (and nothing when k was never set, or deleted since).
C6_GetWithinTtl ==
    lastOp.op = "get" =>
        lastOp.ret =
            IF stored[lastOp.key].some /\ now - stored[lastOp.key].at <= ttl
            THEN Some(stored[lastOp.key].v)
            ELSE None

\* a get of an entry older than ttl returned nothing
C6_Witness ==
    /\ lastOp.op = "get"
    /\ stored[lastOp.key].some
    /\ now - stored[lastOp.key].at > ttl
    /\ lastOp.ret = None

\* C40: set(k, v) and delete(k) change the entry of k only, and get(k) changes
\* no entry: with the time held fixed, get(k') returns the same for every
\* other key k' right before and right after the operation.
C40_OtherKeysUntouched ==
    [][(now' = now /\ lastOp'.op \in {"set", "delete", "get", "get raised"})
        => /\ \A k \in Keys \ {lastOp'.key} :
                /\ cache'[k] = cache[k]
                /\ LLMCache_get(cache', k, now') = LLMCache_get(cache, k, now)
           /\ lastOp'.op \in {"get", "get raised"} => cache' = cache]_vars

C40_Witness ==
    /\ lastOp.op = "delete"
    /\ lastOp.prev # None
    /\ ~cache[lastOp.key].exists
    /\ \E k \in Keys \ {lastOp.key} : LLMCache_get(cache, k, now) # None

----------------------------------------------------------------------------
(* Properties of the client *)

\* a classify_email call on key k starts in this step
CallStarts(k) ==
    /\ pc = "idle"
    /\ cur'.n = cur.n + 1
    /\ (ret'.key = k \/ cur'.key = k)

\* C2: when classify_email finds a non-expired cache entry for the request's
\* fingerprint (a value was set for it at most ttl ago and not removed since),
\* it returns that entry's label, confidence and explanation, increments
\* cache_hits by exactly one and changes no other counter, leaves the
\* rate-limiter window unchanged and makes no external call.
C2_CacheHit ==
    [][\A k \in Keys :
         (CallStarts(k) /\ stored[k].some /\ now - stored[k].at <= ttl) =>
            /\ ret'.kind = "hit"
            /\ ret'.key = k
            /\ ret'.value = stored[k].v
            /\ stats' = [stats EXCEPT !.cache_hits = @ + 1]
            /\ requests' = requests
            /\ apiCalls' = apiCalls
            /\ pc' = "idle"]_vars

\* a call was served from the cache while the limiter window held a timestamp
C2_Witness ==
    /\ ret.kind = "hit"
    /\ stats.cache_hits >= 1
    /\ requests # <<>>
    /\ ret.value = stored[ret.key].v

\* C3: if every response of the external service fails parsing, one classify
\* call makes exactly max_retries external call attempts and then returns no
\* result.
C3_RetryBound ==
    (ret.kind = "none" /\ ret.resp.kind \in {"noparse", "badconf"}) =>
        ret.api = max_retries

Valid(v) ==
    /\ v.label \in {"phishing", "legit"}
    /\ 0 <= v.confidence
    /\ v.confidence <= 100

\* C4: every result classify_email returns, fresh or from the cache, has a
\* label in {"phishing", "legit"} and a confidence in [0.0, 1.0], and no other
\* entry is ever cached.
C4_ValidResults ==
    /\ ret.kind \in {"hit", "fresh"} => Valid(ret.value)
    /\ \A k \in Keys : cache[k].exists => Valid(JsonLoad(cache[k].content))

SameFields(a, b) ==
    /\ a.label = b.label
    /\ a.confidence = b.confidence
    /\ a.explanation = b.explanation

\* the same label, confidence and explanation, served without an external call
SameResult(r) ==
    /\ r.kind = "hit"
    /\ SameFields(r.value, r.pre.v)
    /\ r.api = 0

\* a call has returned that started at most ttl after the last successful
\* classification of the same key (no clear in between)
Repeated(r) ==
    /\ r.kind # "init"
    /\ r.pre.some
    /\ r.start - r.pre.at <= ttl

\* C7 as stated: a successful result is stored under the fingerprint, and a
\* second call with the same key within the TTL returns the same label,
\* confidence and explanation without a further external call.
C7_Original ==
    /\ ret.kind = "fresh" =>
          /\ LLMCache_get(cache, ret.key, now).some
          /\ SameFields(LLMCache_get(cache, ret.key, now).v, ret.value)
    /\ Repeated(ret) => SameResult(ret)

\* C7, amended: the same, for a client whose cache is enabled.
C7_StoredAndReplayed ==
    cache_enabled => C7_Original

\* a second call, later than the first but within the TTL, was served the
\* first call's result
C7_Witness ==
    /\ cache_enabled
    /\ Repeated(ret)
    /\ ret.start > ret.pre.at
    /\ SameResult(ret)

backoff_base == 1     \* time.sleep(2 ** attempt): one second before attempt 2

\* C31: an exception of the provider (a rate-limit error among them) makes
\* the call wait the cooldown instead of returning, and one classify call
\* never makes more than max_retries external call attempts.
C31_RateLimitCooldown ==
    /\ [](ret.api <= max_retries)
    /\ [][(pc = "api" /\ pc' # "api" /\ ret'.resp.kind = "raise")
            => pc' = "sleeping"]_vars

\* C32: the wait before attempt k+1 is base * 2^k: a failed attempt that is
\* not the last one, parse failure or transport failure alike, is followed
\* by a sleep of that length.
C32_BackoffDoubles ==
    [][(/\ pc = "api" /\ pc' # "api"
        /\ ret'.resp.kind \in {"raise", "empty", "noparse"}
        /\ ret'.api < max_retries)
         => /\ pc' = "sleeping"
            /\ cur'.wake = now + backoff_base * 2 ^ (ret'.api - 1)]_vars

\* C33: after every completed classify_email call each call has been counted
\* exactly once, as a cache hit, a successful request or an error, and every
\* miss as a successful request or an error.
C33_CallsCountedOnce ==
    pc = "idle" =>
        /\ cur.n = stats.cache_hits + stats.total_requests + stats.errors
        /\ stats.cache_misses = stats.total_requests + stats.errors

\* C34: the cache holds nothing but results of successful, parsed
\* classifications: every entry is the cache_data of a parsed response, a call
\* that ends without a result leaves the cache as it was, and a call that
\* finds no live entry goes to the external service (again).
C34_OnlySuccessesCached ==
    /\ [](\A k \in Keys : cache[k].exists =>
            \E e \in Entries : cache[k].content = JsonDump(cache_data(e)))
    /\ [][(pc = "api" /\ pc' = "idle" /\ ret'.kind # "fresh")
            => cache' = cache]_vars
    /\ [][(cur'.n = cur.n + 1 /\ cur'.op = "classify")
            => /\ pc' \in {"api", "sleeping"}
               /\ cache_enabled => is_expired(cache[cur'.key], now)]_vars
    /\ [][(cur'.n = cur.n + 1 /\ cache_enabled /\ cur'.op # "classify")
            => ~is_expired(cache[ret'.key], now)]_vars
\* three calls over two keys, the first two without a result, the third one
\* at the external service: a request was sent again after its failure
C34_Witness ==
    /\ pc = "api"
    /\ apiCalls = 2
    /\ stats.errors = 2
    /\ stats.total_requests = 0
    /\ \A k \in Keys : ~cache[k].exists

----------------------------------------------------------------------------
(* Properties of the orchestrator *)

\* C10: if the classification client raises during process_email, the call
\* still returns an EmailEvent, whose llm_label is "unavailable", whose
\* llm_confidence is 0.0 and whose llm_explanation is an error string.
C10_ClientErrorHandled ==
    [][\A m \in Messages :
         (event' # event /\ event'.client.kind = "raise"
            /\ event'.client.msg = m) =>
            /\ event'.made
            /\ event'.llm.llm_label = "unavailable"
            /\ event'.llm.llm_confidence = 0
            /\ event'.llm.llm_explanation = ErrorText(m)]_vars

\* the client raised, and the event carries the sentinel
C10_Witness ==
    /\ event.made
    /\ event.client.kind = "raise"
    /\ event.llm.llm_label = "unavailable"
    /\ event.llm.llm_error = event.client.msg

\* the result fields say that no classification was obtained
Unavailable(llm) ==
    /\ llm.llm_label = "unavailable"
    /\ llm.llm_confidence = 0

\* C11: when the classification client returns no result, the event of
\* process_email and the response of score_email carry the label "unavailable"
\* and the confidence 0.0, not null fields.
C11_NoneIsUnavailable ==
    /\ (event.made /\ event.client.kind = "none") => Unavailable(event.llm)
    /\ (response.status = 200 /\ response.client.kind = "none") =>
          Unavailable(response.llm)

\* the risk level a record carries; "None" when it has no such field
RiskLevelOf(r) == IF "risk_level" \in DOMAIN r THEN r.risk_level ELSE "None"

\* thresholding of the available scores, a missing one (-1) counting as 0
Thresholded(scores) ==
    LET available == {IF x = -1 THEN 0 ELSE x : x \in scores}
    IN IF \E x \in available : x >= HighRisk THEN "high"
       ELSE IF \E x \in available : x >= MediumRisk THEN "medium"
       ELSE "low"

\* the thresholds as score_email applies them to its response
ScoreEmailRisk ==
    response.status = 200 =>
        /\ response.risk_level =
             Thresholded({response.ml_score, response.llm.llm_confidence})
        /\ response.risk_level \in {"low", "medium", "high"}

\* C12: every scored message carries the risk level obtained by thresholding
\* its available scores (>= 0.85 high, >= 0.6 medium, else low, a missing
\* score counting as 0.0), never a null or "unknown" one; this for the
\* response of score_email and for the event of process_email.
C12_RiskLevelTotal ==
    /\ ScoreEmailRisk
    /\ event.made =>
         RiskLevelOf(event) =
             Thresholded({event.ml_score, event.llm.llm_confidence})

\* C13: with classification unavailable, the event of a message that has
\* suspicious keywords and a blacklisted URL has a risk level that is set.
C13_HeuristicRisk ==
    (/\ event.made
     /\ event.llm.llm_label \in {"None", "unavailable"}
     /\ event.suspicious_keywords > 0
     /\ event.url_in_blacklist) =>
        RiskLevelOf(event) \in {"low", "medium", "high"}

\* redaction has nothing left to replace in the text
Redacted(text) == redact_pii(text) = text

\* C14: the sender, the subject and the body handed to classify_email have
\* all been through redact_pii, in process_email and in score_email.
C14_RedactedBeforeCall ==
    /\ event.call.called =>
         /\ Redacted(event.call.sender)
         /\ Redacted(event.call.subject)
         /\ Redacted(event.call.body)
    /\ response.call.called =>
         /\ Redacted(response.call.sender)
         /\ Redacted(response.call.subject)
         /\ Redacted(response.call.body)

\* C35: the risk level of a response is 'high' or 'medium' only when a score
\* that indicates phishing reaches the threshold: the ML phishing
\* probability, or the confidence of a result labelled "phishing".
PhishingScoreAtLeast(r, threshold) ==
    \/ r.ml_score >= threshold
    \/ r.llm.llm_label = "phishing" /\ r.llm.llm_confidence >= threshold
C35_LegitNeverRaisesRisk ==
    response.status = 200 =>
        /\ response.risk_level = "high" =>
             PhishingScoreAtLeast(response, HighRisk)
        /\ response.risk_level = "medium" =>
             PhishingScoreAtLeast(response, MediumRisk)

\* C36: the body excerpt that process_email stores in the event and hands to
\* the classification call is the redacted body cut by truncate_text: at the
\* last period when that lies in the last 20% of the window, else the prefix
\* followed by an ellipsis.
C36_ExcerptBySentenceRule ==
    event.made =>
        /\ event.body_excerpt =
             truncate_text(redact_pii(event.email.body), ExcerptLen)
        /\ event.call.called => event.call.body = event.body_excerpt

----------------------------------------------------------------------------
(* Properties of the text utilities *)

\* C37: truncate_text(text, max_length) never returns more than max_length
\* characters, and returns the text unchanged when it is no longer than
\* max_length.
C37_TruncateWithinMaxLength ==
    applied.fn = "truncate_text" =>
        /\ Len(applied.out) <= applied.n
        /\ Len(applied.arg) <= applied.n => applied.out = applied.arg

\* the part of hostname that urlparse reads in a netloc: what follows the
\* user information and precedes the port
HostOf(w) ==
    LET nl == netloc_lower(netloc(w))
        start == IF \E i \in DOMAIN nl : nl[i] = "@"
                 THEN 1 + CHOOSE i \in DOMAIN nl : nl[i] = "@" ELSE 1
        stop  == IF \E i \in DOMAIN nl : nl[i] = ":"
                 THEN (CHOOSE i \in DOMAIN nl : nl[i] = ":") - 1 ELSE Len(nl)
        host  == SubSeq(nl, start, stop)
    IN IF Len(host) >= 2 /\ host[1] = "www" /\ host[2] = "."
       THEN SubSeq(host, 3, Len(host))
       ELSE host

\* C38: redact_pii replaces a phone number in any of the four layouts, at the
\* start of the text or after whitespace, by [PHONE_REDACTED]: none of its
\* digits remains in the output.
C38_PhonesRedacted ==
    \A pre \in OpenPrefixes, l \in Layouts, post \in Suffixes :
        (applied.fn = "redact_pii" /\ applied.arg = pre \o l \o post) =>
            /\ \E i \in DOMAIN applied.out :
                   applied.out[i] = "[PHONE_REDACTED]"
            /\ \A i \in DOMAIN applied.out : applied.out[i] \notin Digits

\* C39: check_blacklist is true exactly when the host of one of the URLs,
\* lower-cased and without a leading "www.", is a member of the blacklist.
C39_BlacklistByHost ==
    applied.fn = "check_blacklist" =>
        (applied.out <=> \E u \in applied.arg : HostOf(u) \in BLACKLIST_DOMAINS)

----------------------------------------------------------------------------
(* Properties of the cache key *)

\* the same text up to the case of its letters
SameUpToCase(x, y) ==
    /\ Len(x) = Len(y)
    /\ \A i \in DOMAIN x : lower_char(x[i]) = lower_char(y[i])

\* the triple the key is computed from
Normalized(k) ==
    <<lower(k.sender), lower(k.subject), Prefix(lower(k.body), body_prefix)>>

\* C15: two requests that agree, up to letter case, on the sender, on the
\* subject and on the first body_prefix characters of the body get the same
\* cache key, whatever the body holds beyond the prefix.
C15_SameKey ==
    (/\ fp.prev.made
     /\ SameUpToCase(fp.prev.sender, fp.last.sender)
     /\ SameUpToCase(fp.prev.subject, fp.last.subject)
     /\ SameUpToCase(Prefix(fp.prev.body, body_prefix),
                     Prefix(fp.last.body, body_prefix))) =>
        fp.prev.key = fp.last.key

\* C16: two requests whose normalized (sender, subject, body prefix) triples
\* differ get different cache keys, the digest being collision-free.
C16_DistinctKeys ==
    (fp.prev.made /\ Normalized(fp.prev) # Normalized(fp.last)) =>
        fp.prev.key # fp.last.key

----------------------------------------------------------------------------
(* Properties of the configuration *)

\* C17: a constructed Config has mode 'llm' or 'fallback'; construction
\* changes the requested mode only from 'llm' to 'fallback' and only when the
\* API key is absent; once constructed the mode never changes.
C17_ModeOneWay ==
    /\ [](config.phase = "ready" => mode \in {"llm", "fallback"})
    /\ [][/\ config.phase # "new" => mode' = mode
          /\ (config.phase = "new" /\ config'.phase = "ready"
                /\ mode' # config'.requested) =>
               /\ config'.requested = "llm"
               /\ mode' = "fallback"
               /\ ~config'.api_key]_vars

\* 'llm' was requested without a key, the mode became 'fallback', and a
\* message was processed in it
C17_Witness ==
    /\ config.phase = "ready"
    /\ config.requested = "llm"
    /\ ~config.api_key
    /\ mode = "fallback"
    /\ event.made

C19_DegradedNeverCalls ==
    (config.agent = "ready" /\ mode = "fallback") =>
        /\ ~config.llm_client
        /\ pc = "idle"
        /\ cur = NoCall
        /\ apiCalls = 0
        /\ requests = <<>>
        /\ \A k \in Keys : cache[k] = NoFile
        /\ stats = [total_requests |-> 0, cache_hits |-> 0,
                    cache_misses |-> 0, errors |-> 0, total_latency_ms |-> 0]
        /\ ~event.call.called
        /\ event.email # NoEmail => event.made

\* a message with suspicious keywords was processed in mode 'fallback'
C19_Witness ==
    /\ config.agent = "ready"
    /\ mode = "fallback"
    /\ now > 0
    /\ event.made
    /\ event.suspicious_keywords > 0
    /\ event.llm = NoLlm

----------------------------------------------------------------------------
(* Properties of the batch endpoint *)

\* what scoring the entry alone gives
Alone(e) ==
    LET r == score_email(e.request, e.ml, e.outcome)
    IN IF r.status = 200 THEN Scored(r) ELSE ErrorEntry(r)

====
